---- MODULE Spec2Model ----
(***************************************************************************)
(* The Result/Parser algebra of packages/parse/src/parse.ts.               *)
(*                                                                         *)
(* A parser is a tree of closures; here it is a record naming the          *)
(* combinator that built it and its captured arguments, and Apply runs it  *)
(* the way the closure's body does.  A JavaScript value is a tagged        *)
(* record.  Every evaluation returns the Result together with the log of   *)
(* the parser functions it invoked, in invocation order, so that           *)
(* short-circuiting is observable.                                         *)
(***************************************************************************)
EXTENDS Integers, Sequences, FiniteSets, TLC

(***************************************************************************)
(* Bounds of the explored inputs.                                          *)
(***************************************************************************)
MaxNum == 1
MaxLen == 2
MaxFields == 2
MaxAlts == 2
MaxCalls == 3

(***************************************************************************)
(* What outlives one call of a composed parser.  history lists the calls   *)
(* made so far on the parser, each with its caller, the input as the       *)
(* caller holds it after the call, and the Result the caller was handed.   *)
(* scratch holds the properties of the result object that the latest call  *)
(* of objectOf/indexedObjectOf filled and returned.                        *)
(***************************************************************************)
VARIABLES history, scratch

(***************************************************************************)
(* The HTTP side (packages/serve).  endpoint holds the handler under test  *)
(* and the default handler given to serve; written lists the writes made   *)
(* on the ServerResponse.                                                  *)
(***************************************************************************)
VARIABLES endpoint, written

(***************************************************************************)
(* Streams: buffers holds the chunks read so far from a request body or a  *)
(* response.                                                               *)
(***************************************************************************)
VARIABLES buffers

others == <<history, scratch, endpoint, written, buffers>>

(***************************************************************************)
(* JavaScript values.  An object keeps its properties in creation order;   *)
(* an array is a sequence of values.                                       *)
(***************************************************************************)
Null == [t |-> "null"]
Undefined == [t |-> "undefined"]
Bool(b) == [t |-> "boolean", v |-> b]
Num(n) == [t |-> "number", v |-> n]
Str(s) == [t |-> "string", v |-> s]
Arr(items) == [t |-> "array", v |-> items]
Obj(entries) == [t |-> "object", v |-> entries]

\* typeof value
TypeOf(value) ==
    IF value.t \in {"null", "array", "object"} THEN "object" ELSE value.t

\* ToBoolean(value), as applied by `obj ? ... : ...`
Truthy(value) ==
    CASE value.t \in {"null", "undefined"} -> FALSE
      [] value.t = "boolean" -> value.v
      [] value.t = "number" -> value.v # 0
      [] value.t = "string" -> value.v # ""
      [] OTHER -> TRUE

\* The canonical numeric strings that name array indices ("0", "1", ...).
IndexKeys == [i \in 1..(MaxLen + 1) |-> ToString(i - 1)]

IsIndexKey(key) == \E i \in 1..Len(IndexKeys) : IndexKeys[i] = key

IndexOf(key) == (CHOOSE i \in 1..Len(IndexKeys) : IndexKeys[i] = key) - 1

EntryKeys(entries) == {entries[i][1] : i \in 1..Len(entries)}

Lookup(entries, key) ==
    entries[CHOOSE i \in 1..Len(entries) : entries[i][1] = key][2]

\* A variant of Get: an absent property reads as null.
GetNull(value, key) ==
    IF value.t = "object" /\ key \in EntryKeys(value.v)
    THEN Lookup(value.v, key)
    ELSE Null

\* value[key] for a value that is neither null nor undefined.  Properties
\* inherited from the prototypes are not among the keys explored, except
\* length.  The strings explored have at most one character.
Get(value, key) ==
    CASE value.t = "object" ->
           IF key \in EntryKeys(value.v) THEN Lookup(value.v, key) ELSE Undefined
      [] value.t = "array" ->
           IF key = "length" THEN Num(Len(value.v))
           ELSE IF IsIndexKey(key) /\ IndexOf(key) < Len(value.v)
                THEN value.v[IndexOf(key) + 1]
                ELSE Undefined
      [] value.t = "string" ->
           IF key = "length" THEN Num(Len(value.v))
           ELSE IF IsIndexKey(key) /\ IndexOf(key) < Len(value.v)
                THEN Str(value.v)
                ELSE Undefined
      [] OTHER -> Undefined

\* The order in which for...in visits the own enumerable string keys of an
\* object whose properties were created in the order of entries: the
\* integer-like keys ascending, then the other keys in creation order.
OwnKeys(entries) ==
    SelectSeq(IndexKeys, LAMBDA k : k \in EntryKeys(entries))
      \o SelectSeq([i \in 1..Len(entries) |-> entries[i][1]],
                   LAMBDA k : ~IsIndexKey(k))

\* for (const key in value), value an object or an array
ForIn(value) ==
    IF value.t = "array"
    THEN [i \in 1..Len(value.v) |-> ToString(i - 1)]
    ELSE OwnKeys(value.v)

\* result[key] = value
Put(entries, key, value) ==
    IF key \in EntryKeys(entries)
    THEN [i \in 1..Len(entries) |->
            IF entries[i][1] = key THEN <<key, value>> ELSE entries[i]]
    ELSE Append(entries, <<key, value>>)

RECURSIVE Renders(_)
\* Whether String(value) completes.  It throws a TypeError on an object
\* whose own toString property is not a function (no value explored is a
\* function), and on an array that has such an object among its members.
Renders(value) ==
    CASE value.t = "object" -> "toString" \notin EntryKeys(value.v)
      [] value.t = "array" -> \A i \in 1..Len(value.v) : Renders(value.v[i])
      [] OTHER -> TRUE

RECURSIVE Join(_, _)
\* String(value), as a template literal renders it, where it completes
JSString(value) ==
    CASE value.t = "null" -> "null"
      [] value.t = "undefined" -> "undefined"
      [] value.t = "boolean" -> IF value.v THEN "true" ELSE "false"
      [] value.t = "number" -> ToString(value.v)
      [] value.t = "string" -> value.v
      [] value.t = "array" -> Join(value.v, 1)
      [] OTHER -> "[object Object]"

\* Array.prototype.join(","): null and undefined elements render empty
Join(items, i) ==
    IF i > Len(items) THEN ""
    ELSE (IF items[i].t \in {"null", "undefined"} THEN "" ELSE JSString(items[i]))
           \o (IF i < Len(items) THEN "," ELSE "")
           \o Join(items, i + 1)

(***************************************************************************)
(* Results.                                                                *)
(***************************************************************************)
success(value) == [type |-> "success", value |-> value]

failure(value, reason) == [type |-> "failure", value |-> value, reason |-> reason]

\* The outcome of a call that threw instead of returning a Result.
Thrown == [type |-> "throw", error |-> "TypeError"]

isSuccess(result) == result.type = "success"

isFailure(result) == result.type = "failure"

\* A Result is an object, and every object is truthy.
ToBoolean(result) == result.type \in {"success", "failure"}

\* A variant of failTypeOf: null is reported by its typeof.
failTypeOfPlain(value) == failure(value, "typeof value is " \o TypeOf(value))

failTypeOf(value) ==
    failure(value, "typeof value is "
                     \o (IF value = Null THEN "null" ELSE TypeOf(value)))

\* A variant of keyedFailure: the reason is passed on without its key.
keyedFailureBare(value, key, f) == failure(value, f.reason)

\* A variant of keyedFailure: the failure keeps the value of the inner one.
keyedFailureLeaf(value, key, f) ==
    failure(f.value, "Failed at '" \o key \o "': " \o f.reason)

keyedFailure(value, key, f) ==
    failure(value, "Failed at '" \o key \o "': " \o f.reason)

(***************************************************************************)
(* Primitive parsers.                                                      *)
(***************************************************************************)
isString(value) ==
    IF TypeOf(value) = "string" THEN success(value) ELSE failTypeOf(value)

isNumber(value) ==
    IF TypeOf(value) = "number" THEN success(value) ELSE failTypeOf(value)

isUndefined(value) ==
    IF value = Undefined THEN success(Undefined) ELSE failTypeOf(value)

isBoolean(value) ==
    IF TypeOf(value) = "boolean" THEN success(value) ELSE failTypeOf(value)

isAnyValue(value) == success(value)

isObject(value) ==
    IF TypeOf(value) = "object" /\ value # Null /\ value # Undefined
    THEN success(value)
    ELSE failTypeOf(value)

\* A variant of isArray: it fails the way the other primitives do.
isArrayTypeOf(value) ==
    IF value.t = "array" THEN success(value) ELSE failTypeOf(value)

isArray(value) ==
    IF value.t = "array"
    THEN success(value)
    ELSE failure(value, "value is not Array.isArray")

\* A variant of isExactly: the comparison is ==, which converts a numeric
\* string to a number before comparing.
isExactlyLoose(option, value) ==
    IF \/ value = option
       \/ /\ option.t = "number"
          /\ value.t = "string"
          /\ value.v = ToString(option.v)
    THEN success(option)
    ELSE failure(value, "is not " \o JSString(option))

isExactly(option, value) ==
    IF value = option
    THEN success(option)
    ELSE failure(value, "is not " \o JSString(option))

(***************************************************************************)
(* Evaluations.  An evaluation is the Result of a call together with the   *)
(* log of the parser invocations the call made: each entry names the       *)
(* parser invoked, the value it was given and the path of keys from the    *)
(* outermost input to that value.                                          *)
(***************************************************************************)
Pure(result) == [res |-> result, calls |-> <<>>]

Invocation(p, value, path) == [p |-> p, v |-> value, path |-> path]

\* e has been evaluated, then n, unless e threw
Then(e, n) ==
    IF e.res = Thrown THEN e ELSE [res |-> n.res, calls |-> e.calls \o n.calls]

\* The callbacks of the four operators below are passed as the evaluation
\* they stand for: next is the evaluation of next(e.res) (of
\* next(e.res.value) in mapSuccess), and it takes place only where the
\* operator uses it.
mapFailure(e, next) ==
    IF isFailure(e.res) THEN Then(e, next) ELSE e

\* A variant of mapSuccess: next is called whatever the Result is.
mapSuccessAlways(e, next) == Then(e, next)

mapSuccess(e, next) ==
    IF isSuccess(e.res) THEN Then(e, next) ELSE e

mapResult(e, onSuccess, onFailure) ==
    IF isSuccess(e.res) THEN Then(e, onSuccess) ELSE Then(e, onFailure)

\* A variant of mapParser: a Failure is returned as it was produced.
mapParserKeep(validated, next, value) == mapSuccess(validated, next)

\* mapParser(validator, next)(value), validated being validator(value)
mapParser(validated, next, value) ==
    LET mapped == mapSuccess(validated, next)
    IN  mapFailure(mapped, Pure([mapped.res EXCEPT !.value = value]))

(***************************************************************************)
(* Parsers: what each combinator returns.                                  *)
(***************************************************************************)
isStringP == [k |-> "isString"]
isNumberP == [k |-> "isNumber"]
isUndefinedP == [k |-> "isUndefined"]
isBooleanP == [k |-> "isBoolean"]
isAnyValueP == [k |-> "isAnyValue"]
isObjectP == [k |-> "isObject"]
isArrayP == [k |-> "isArray"]
isExactlyP(option) == [k |-> "isExactly", option |-> option]
optional(validator) == [k |-> "optional", validator |-> validator]
voidable(validator) == [k |-> "voidable", validator |-> validator]
\* validators: the <<name, parser>> pairs in the order the literal lists them
objectOf(validators) == [k |-> "objectOf", validators |-> validators]
indexedObjectOf(parser) == [k |-> "indexedObjectOf", parser |-> parser]
arrayOf(validator) == [k |-> "arrayOf", validator |-> validator]
\* mapParser(validator, next) as a Parser value; next is any function from
\* the validated value to a Result, here another parser
mapParserP(validator, next) ==
    [k |-> "mapParser", validator |-> validator, next |-> next]

oneOf(parser, parsers) ==
    IF Len(parsers) = 0
    THEN parser
    ELSE [k |-> "oneOf", parser |-> parser, parsers |-> parsers]

RECURSIVE Apply(_, _, _)
RECURSIVE objectOfLoop(_, _, _, _, _, _)
RECURSIVE indexedObjectOfLoop(_, _, _, _, _, _)
RECURSIVE arrayOfReduce(_, _, _, _, _)
RECURSIVE oneOfReduce(_, _, _, _, _)

\* A variant of optionalCall: the test is value == null, which undefined
\* passes as well.
optionalCallLoose(validator, value, path) ==
    IF value \in {Null, Undefined}
    THEN Pure(success(Null))
    ELSE Apply(validator, value, path)

optionalCall(validator, value, path) ==
    IF value = Null THEN Pure(success(Null)) ELSE Apply(validator, value, path)

\* A variant of voidableCall: an absent value is returned as null.
voidableCallNull(validator, value, path) ==
    IF value = Undefined
    THEN Pure(success(Null))
    ELSE Apply(validator, value, path)

voidableCall(validator, value, path) ==
    IF value = Undefined
    THEN Pure(success(Undefined))
    ELSE Apply(validator, value, path)

\* A variant of objectOfLoop: every field is validated before the first
\* failure is returned.
objectOfLoopAll(validators, keys, i, value, result, path) ==
    IF i > Len(keys)
    THEN Pure(success(Obj(result)))
    ELSE LET key == keys[i]
             validated ==
                 Apply(Lookup(validators, key),
                       IF Truthy(value) THEN Get(value, key) ELSE Undefined,
                       Append(path, key))
             rest ==
                 objectOfLoop(validators, keys, i + 1, value,
                              IF isFailure(validated.res)
                              THEN result
                              ELSE Put(result, key, validated.res.value),
                              path)
         IN  IF isFailure(validated.res)
             THEN Then(validated,
                       Then(rest, Pure(keyedFailure(value, key, validated.res))))
             ELSE Then(validated, rest)

\* A variant of objectOfLoop: the success carries the input itself.
objectOfLoopCopy(validators, keys, i, value, result, path) ==
    IF i > Len(keys)
    THEN Pure(success(value))
    ELSE LET key == keys[i]
             validated ==
                 Apply(Lookup(validators, key),
                       IF Truthy(value) THEN Get(value, key) ELSE Undefined,
                       Append(path, key))
         IN  IF isFailure(validated.res)
             THEN Then(validated, Pure(keyedFailure(value, key, validated.res)))
             ELSE Then(validated,
                       objectOfLoop(validators, keys, i + 1, value,
                                    Put(result, key, validated.res.value), path))

\* the for...in loop of objectOf from its i-th key on
objectOfLoop(validators, keys, i, value, result, path) ==
    IF i > Len(keys)
    THEN Pure(success(Obj(result)))
    ELSE LET key == keys[i]
             validated ==
                 Apply(Lookup(validators, key),
                       IF Truthy(value) THEN Get(value, key) ELSE Undefined,
                       Append(path, key))
         IN  IF isFailure(validated.res)
             THEN Then(validated, Pure(keyedFailure(value, key, validated.res)))
             ELSE Then(validated,
                       objectOfLoop(validators, keys, i + 1, value,
                                    Put(result, key, validated.res.value), path))

\* A variant of NewObject: result is declared once, outside the returned
\* function, so a call goes on filling the object of the call before it.
NewObjectHoisted(value) == scratch

\* const result = {}, evaluated anew by every call on value
NewObject(value) == <<>>

objectOfCall(validators, value, path) ==
    IF ~ToBoolean(isObject(value))
    THEN Pure(failure(value, "Not an object"))
    ELSE objectOfLoop(validators, OwnKeys(validators), 1, value,
                      NewObject(value), path)

\* the for...in loop of indexedObjectOf from its i-th key on
\* A variant of indexedObjectOfLoop: the result holds the values of the input
\* instead of the validated ones.
indexedObjectOfLoopRaw(parser, keys, i, value, result, path) ==
    IF i > Len(keys)
    THEN Pure(success(Obj(result)))
    ELSE LET key == keys[i]
             child == Apply(parser, Get(value, key), Append(path, key))
         IN  IF isFailure(child.res)
             THEN Then(child, Pure(keyedFailure(value, key, child.res)))
             ELSE Then(child,
                       indexedObjectOfLoop(parser, keys, i + 1, value,
                                           Put(result, key, Get(value, key)), path))

indexedObjectOfLoop(parser, keys, i, value, result, path) ==
    IF i > Len(keys)
    THEN Pure(success(Obj(result)))
    ELSE LET key == keys[i]
             child == Apply(parser, Get(value, key), Append(path, key))
         IN  IF isFailure(child.res)
             THEN Then(child, Pure(keyedFailure(value, key, child.res)))
             ELSE Then(child,
                       indexedObjectOfLoop(parser, keys, i + 1, value,
                                           Put(result, key, child.res.value), path))

\* A variant of indexedObjectOfCall: only value === null is tested before
\* the typeof test.
indexedObjectOfCallStrict(parser, value, path) ==
    IF value = Null
    THEN Pure(failure(value, "value is null or undefined"))
    ELSE IF TypeOf(value) # "object"
         THEN Pure(failTypeOf(value))
         ELSE indexedObjectOfLoop(parser, ForIn(value), 1, value, <<>>, path)

indexedObjectOfCall(parser, value, path) ==
    IF value = Null \/ value \in {Null, Undefined}
    THEN Pure(failure(value, "value is null or undefined"))
    ELSE IF TypeOf(value) # "object"
         THEN Pure(failTypeOf(value))
         ELSE indexedObjectOfLoop(parser, ForIn(value), 1, value,
                                  NewObject(value), path)

\* A variant of arrayOfReduce: the members are visited from the last one.
arrayOfReduceRight(validator, value, i, acc, path) ==
    IF i > Len(value.v)
    THEN acc
    ELSE LET j == Len(value.v) - i + 1
             items == acc.res.value
             member == Apply(validator, value.v[j], Append(path, ToString(j - 1)))
         IN  arrayOfReduce(validator, value, i + 1,
               mapSuccess(acc,
                 mapResult(member,
                   Pure(success(Arr(<<member.res.value>> \o items.v))),
                   Pure(keyedFailure(value, ToString(j - 1), member.res)))),
               path)

\* A variant of arrayOfReduce: each validated member is put in front.
arrayOfReduceFront(validator, value, i, acc, path) ==
    IF i > Len(value.v)
    THEN acc
    ELSE LET items == acc.res.value
             member == Apply(validator, value.v[i], Append(path, ToString(i - 1)))
         IN  arrayOfReduce(validator, value, i + 1,
               mapSuccess(acc,
                 mapResult(member,
                   Pure(success(Arr(<<member.res.value>> \o items.v))),
                   Pure(keyedFailure(value, ToString(i - 1), member.res)))),
               path)

\* value.reduce(..., acc) from the i-th member on (index i - 1)
arrayOfReduce(validator, value, i, acc, path) ==
    IF i > Len(value.v)
    THEN acc
    ELSE LET items == acc.res.value
             member == Apply(validator, value.v[i], Append(path, ToString(i - 1)))
         IN  arrayOfReduce(validator, value, i + 1,
               mapSuccess(acc,
                 mapResult(member,
                   Pure(success(Arr(Append(items.v, member.res.value)))),
                   Pure(keyedFailure(value, ToString(i - 1), member.res)))),
               path)

arrayOfCall(validator, value, path) ==
    mapParser(Pure(isArray(value)),
              arrayOfReduce(validator, isArray(value).value, 1,
                            Pure(success(Arr(<<>>))), path),
              value)

\* A variant of oneOfReduce: every parser is tried and the last success wins.
oneOfReduceLast(parsers, i, acc, value, path) ==
    IF i > Len(parsers)
    THEN acc
    ELSE LET tried == Apply(parsers[i], value, path)
         IN  oneOfReduce(parsers, i + 1,
               IF isSuccess(tried.res) \/ isFailure(acc.res)
               THEN Then(acc, tried)
               ELSE [res |-> acc.res, calls |-> acc.calls \o tried.calls],
               value, path)

\* parsers.reduce(..., acc) from the i-th of the rest parsers on
oneOfReduce(parsers, i, acc, value, path) ==
    IF i > Len(parsers)
    THEN acc
    ELSE oneOfReduce(parsers, i + 1,
           mapFailure(acc, Apply(parsers[i], value, path)),
           value, path)

oneOfCall(parser, parsers, value, path) ==
    mapFailure(
      oneOfReduce(parsers, 1, Apply(parser, value, path), value, path),
      IF Renders(value)
      THEN Pure(failure(value,
                  "'" \o JSString(value) \o "' did not match any of "
                      \o ToString(Len(parsers) + 1) \o " validators"))
      ELSE Pure(Thrown))

\* The returned closure of mapParser(validator, next): next is called on the
\* value the validator produced
mapParserCall(validator, next, value, path) ==
    LET validated == Apply(validator, value, path)
    IN  mapParser(validated, Apply(next, validated.res.value, path), value)

\* p(value): the invocation is logged, then the body of p runs
Apply(p, value, path) ==
    Then([res |-> success(value), calls |-> <<Invocation(p, value, path)>>],
         CASE p.k = "isString" -> Pure(isString(value))
           [] p.k = "isNumber" -> Pure(isNumber(value))
           [] p.k = "isUndefined" -> Pure(isUndefined(value))
           [] p.k = "isBoolean" -> Pure(isBoolean(value))
           [] p.k = "isAnyValue" -> Pure(isAnyValue(value))
           [] p.k = "isObject" -> Pure(isObject(value))
           [] p.k = "isArray" -> Pure(isArray(value))
           [] p.k = "isExactly" -> Pure(isExactly(p.option, value))
           [] p.k = "optional" -> optionalCall(p.validator, value, path)
           [] p.k = "voidable" -> voidableCall(p.validator, value, path)
           [] p.k = "objectOf" -> objectOfCall(p.validators, value, path)
           [] p.k = "indexedObjectOf" -> indexedObjectOfCall(p.parser, value, path)
           [] p.k = "arrayOf" -> arrayOfCall(p.validator, value, path)
           [] p.k = "oneOf" -> oneOfCall(p.parser, p.parsers, value, path)
           [] p.k = "mapParser" ->
                mapParserCall(p.validator, p.next, value, path))

(***************************************************************************)
(* The inputs and the parsers explored.                                    *)
(***************************************************************************)
SeqsUpTo(S, n) == UNION {[1..m -> S] : m \in 0..n}

\* the sequences of <<key, x>> pairs with pairwise distinct keys
EntriesOf(keys, S, n) ==
    {es \in SeqsUpTo(keys \X S, n) :
       \A i, j \in 1..Len(es) : es[i][1] = es[j][1] => i = j}

FieldNames == {"a", "b", "0"}

Numbers == {Num(n) : n \in 0..MaxNum}

Primitives ==
    {Null, Undefined, Bool(TRUE), Bool(FALSE), Str(""), Str("s"), Str("1")}
      \cup Numbers

Members == {Null, Str("s"), Num(1)}

Properties == {Str("s"), Num(1)}

FlatArrays == {Arr(s) : s \in SeqsUpTo(Members, MaxLen)}

FlatObjects == {Obj(es) : es \in EntriesOf(FieldNames, Properties, MaxFields)}

InnerValues ==
    {Num(1)} \cup {Arr(s) : s \in SeqsUpTo({Num(1), Str("s")}, 1)}
      \cup {Obj(es) : es \in EntriesOf(FieldNames, {Num(1), Str("s")}, 1)}

Nested(S, keys) ==
    {Obj(<<<<k, x>>>>) : k \in keys, x \in S} \cup {Arr(<<x>>) : x \in S}

NestedValues == Nested(InnerValues, FieldNames)

DeepValues == Nested(NestedValues \ Nested({Num(1)}, FieldNames), {"a"})

\* JSON.parse('{"toString": 1}'), alone and as a member
Unprintable ==
    {Obj(<<<<"toString", Num(1)>>>>), Arr(<<Obj(<<<<"toString", Num(1)>>>>)>>)}

Values ==
    Primitives \cup FlatArrays \cup FlatObjects \cup NestedValues \cup DeepValues
      \cup Unprintable

Leaves ==
    {isStringP, isNumberP, isUndefinedP, isBooleanP, isAnyValueP, isObjectP,
     isArrayP, isExactlyP(Num(1)), isExactlyP(Str("s")), isExactlyP(Bool(TRUE))}

Wrapped ==
    {optional(p) : p \in {isNumberP, isStringP}}
      \cup {voidable(p) : p \in {isNumberP, isStringP}}

FieldParsers == {isStringP, oneOf(isUndefinedP, <<isStringP>>)}

Records ==
    {objectOf(vs) : vs \in EntriesOf(FieldNames, FieldParsers, MaxFields)}
      \cup {objectOf(<<<<k, voidable(isNumberP)>>>>) : k \in FieldNames}

Alternatives == {isAnyValueP, isNumberP, objectOf(<<<<"a", isStringP>>>>)}

Unions ==
    {oneOf(p, ps) : p \in Alternatives, ps \in SeqsUpTo(Alternatives, MaxAlts)}

Mapped ==
    {mapParserP(p, n) :
       p \in {isAnyValueP, isNumberP, objectOf(<<<<"a", isStringP>>>>),
              arrayOf(isNumberP)},
       n \in {isObjectP, isExactlyP(Num(1)), objectOf(<<<<"b", isStringP>>>>)}}

Collections(S) ==
    {arrayOf(p) : p \in S} \cup {indexedObjectOf(p) : p \in S}

InnerParsers ==
    {objectOf(<<<<k, isNumberP>>>>) : k \in {"a", "0"}} \cup Collections({isNumberP})

NestedParsers ==
    {objectOf(<<<<k, p>>>>) : k \in FieldNames, p \in InnerParsers}
      \cup Collections(InnerParsers)

DeepParsers ==
    {objectOf(<<<<"a", p>>>>) : p \in NestedParsers} \cup Collections(NestedParsers)

Parsers ==
    Leaves \cup Wrapped \cup Records \cup Unions \cup Collections(Leaves \cup Wrapped)
      \cup InnerParsers \cup NestedParsers \cup DeepParsers \cup Mapped

(***************************************************************************)
(* The state: a parser is composed once, then called on an input.          *)
(***************************************************************************)
VARIABLES pc, parser, input, result, calls

vars ==
    <<pc, parser, input, result, calls, history, scratch, endpoint, written,
      buffers>>

Init ==
    /\ pc = "compose"
    /\ parser = Null
    /\ input = Undefined
    /\ result = Null
    /\ calls = <<>>
    /\ history = <<>>
    /\ scratch = <<>>
    /\ endpoint = Null
    /\ written = <<>>
    /\ buffers = <<>>

\* the combinators are applied and return a parser
Compose(p) ==
    /\ pc = "compose"
    /\ parser' = p
    /\ pc' = "composed"
    /\ UNCHANGED <<input, result, calls>>
    /\ UNCHANGED others

\* a caller obtains a value to validate
Receive(value) ==
    /\ pc = "composed"
    /\ input' = value
    /\ pc' = "ready"
    /\ UNCHANGED <<parser, result, calls>>
    /\ UNCHANGED others

\* parser(input) runs to completion
Call ==
    /\ pc = "ready"
    /\ LET e == Apply(parser, input, <<>>)
       IN  /\ result' = e.res
           /\ calls' = e.calls
    /\ pc' = "done"
    /\ UNCHANGED <<parser, input>>
    /\ UNCHANGED others

Next ==
    \/ \E p \in Parsers : Compose(p)
    \/ \E value \in Values : Receive(value)
    \/ Call

Spec == Init /\ [][Next]_vars

(***************************************************************************)
(* Vocabulary of the properties.                                           *)
(***************************************************************************)
Done == pc = "done"

\* what p returns on value
Outcome(p, value) == Apply(p, value, <<>>).res

IsContainer(value) == value.t \in {"object", "array"}

DeclaredNames(validators) == [i \in 1..Len(validators) |-> validators[i][1]]

\* the field of parser named keys[i] rejects the input's property
FieldFails(keys, i) ==
    isFailure(Outcome(Lookup(parser.validators, keys[i]), Get(input, keys[i])))

FirstFailing(keys) ==
    CHOOSE i \in 1..Len(keys) :
      FieldFails(keys, i) /\ \A j \in 1..(i - 1) : ~FieldFails(keys, j)

\* the failure objectOf owes when the fields are visited in the order keys
FieldFailure(keys) ==
    LET key == keys[FirstFailing(keys)]
    IN  failure(input,
                "Failed at '" \o key \o "': "
                  \o Outcome(Lookup(parser.validators, key), Get(input, key)).reason)

ObjectCase == Done /\ parser.k = "objectOf" /\ input.t = "object"

SomeFieldFails ==
    \E i \in 1..Len(parser.validators) :
      FieldFails(DeclaredNames(parser.validators), i)

(***************************************************************************)
(* C1: for every input that is not an object (a number, string, boolean,   *)
(* null or undefined) the parser built by objectOf returns the failure     *)
(* 'Not an object' carrying the input, and invokes no field parser.        *)
(***************************************************************************)
C1_NotAnObject ==
    (Done /\ parser.k = "objectOf" /\ ~IsContainer(input))
      => /\ result = failure(input, "Not an object")
         /\ Len(calls) = 1

(***************************************************************************)
(* C2, as stated: on an object input on which some declared field parser   *)
(* fails, objectOf returns the failure "Failed at '<field>': <reason>" of  *)
(* the first failing field in the declaration order of the validators,     *)
(* carrying the whole input.                                               *)
(***************************************************************************)
C2_DeclarationOrder ==
    (ObjectCase /\ SomeFieldFails)
      => result = FieldFailure(DeclaredNames(parser.validators))

(***************************************************************************)
(* C2, amended: on an object input on which some declared field parser     *)
(* fails, objectOf returns the failure "Failed at '<field>': <reason>" of  *)
(* the first failing field in the order in which for...in enumerates the   *)
(* validators (the integer-like names ascending, then the other names in   *)
(* declaration order), carrying the whole input.                           *)
(***************************************************************************)
C2_EnumerationOrder ==
    (ObjectCase /\ SomeFieldFails)
      => result = FieldFailure(OwnKeys(parser.validators))

\* two declared fields fail, and for...in visits the second declared first
C2_Witness ==
    /\ ObjectCase
    /\ Len(parser.validators) = 2
    /\ \A i \in 1..2 : FieldFails(DeclaredNames(parser.validators), i)
    /\ OwnKeys(parser.validators) # DeclaredNames(parser.validators)
    /\ Len(input.v) > 0
    /\ isFailure(result)

(***************************************************************************)
(* The invocations of the parsers a combinator was built from.             *)
(***************************************************************************)
\* the parser p applies to its input's property or member named key
ChildOf(p, key) ==
    CASE p.k = "objectOf" -> Lookup(p.validators, key)
      [] p.k = "indexedObjectOf" -> p.parser
      [] p.k = "arrayOf" -> p.validator

RECURSIVE ParserAt(_, _)
\* the parser met by following path down from p
ParserAt(p, path) ==
    IF path = <<>> THEN p ELSE ParserAt(ChildOf(p, Head(path)), Tail(path))

\* the invocations among calls of the parsers that parser applies to the
\* properties or members of its input (a parser that such a parser invokes
\* in turn is a proper part of it, hence another parser)
ChildCalls ==
    SelectSeq(calls, LAMBDA c : Len(c.path) = 1 /\ c.p = ChildOf(parser, c.path[1]))

C3_Keys ==
    IF parser.k = "objectOf" THEN OwnKeys(parser.validators) ELSE ForIn(input)

\* the i-th inner call does not succeed: it fails, or it throws and ends the
\* whole call with it
C3_Fails(i) ==
    ~isSuccess(Outcome(ChildOf(parser, C3_Keys[i]), Get(input, C3_Keys[i])))

C3_Stop ==
    IF \E i \in 1..Len(C3_Keys) : C3_Fails(i)
    THEN CHOOSE i \in 1..Len(C3_Keys) :
           C3_Fails(i) /\ \A j \in 1..(i - 1) : ~C3_Fails(j)
    ELSE Len(C3_Keys)

(***************************************************************************)
(* C3: objectOf and indexedObjectOf short-circuit: the inner parsers are   *)
(* invoked on the fields/keys in enumeration order up to and including the *)
(* first one that fails, and on none after it; their number is the         *)
(* position of the first failing field/key, or the number of fields/keys   *)
(* when none fails.                                                        *)
(***************************************************************************)
C3_ShortCircuit ==
    (Done /\ parser.k \in {"objectOf", "indexedObjectOf"} /\ IsContainer(input))
      => LET inner == ChildCalls
             keys == C3_Keys
             stop == C3_Stop
         IN  /\ Len(inner) = stop
             /\ \A i \in 1..stop :
                  /\ inner[i].path = <<keys[i]>>
                  /\ inner[i].v = Get(input, keys[i])

\* the first of several keys of a map fails
C3_Witness ==
    /\ Done /\ parser.k = "indexedObjectOf" /\ input.t = "object"
    /\ Len(C3_Keys) > 1
    /\ C3_Fails(1)
    /\ Len(ChildCalls) = 1

(***************************************************************************)
(* C4: when every declared field parser succeeds, objectOf returns Success *)
(* of a record whose keys are exactly the declared field names, each       *)
(* holding its field parser's validated output; keys of the input that are *)
(* not declared are not copied.                                            *)
(***************************************************************************)
C4_Record ==
    (ObjectCase /\ ~SomeFieldFails)
      => /\ isSuccess(result)
         /\ result.value.t = "object"
         /\ Len(result.value.v) = Len(parser.validators)
         /\ EntryKeys(result.value.v) = EntryKeys(parser.validators)
         /\ \A key \in EntryKeys(parser.validators) :
              Lookup(result.value.v, key)
                = Outcome(Lookup(parser.validators, key), Get(input, key)).value

\* a success on an input that has a key no field declares
C4_Witness ==
    /\ ObjectCase /\ ~SomeFieldFails
    /\ Len(parser.validators) > 0
    /\ EntryKeys(input.v) \ EntryKeys(parser.validators) # {}
    /\ isSuccess(result)

C5_Typed == {isStringP, isNumberP, isBooleanP}

C5_Accepting == {voidable(isNumberP), oneOf(isUndefinedP, <<isStringP>>)}

(***************************************************************************)
(* C5: for a declared field the input object lacks, objectOf invokes the   *)
(* field's parser on undefined: a parser that rejects undefined fails the  *)
(* object at that field with its reason, which for isString, isNumber and  *)
(* isBoolean reads "Failed at '<field>': typeof value is undefined"; a     *)
(* parser that accepts undefined, such as oneOf(isUndefined, isString) or  *)
(* voidable, does not fail the object, which succeeds when every other     *)
(* field has been accepted.                                                *)
(***************************************************************************)
C5_MissingField ==
    ObjectCase
      => LET inner == ChildCalls
         IN  \A i \in 1..Len(inner) :
               LET key == inner[i].path[1]
               IN  key \notin EntryKeys(input.v)
                     => /\ inner[i].v = Undefined
                        /\ isFailure(Outcome(inner[i].p, Undefined))
                             => result = failure(input,
                                  "Failed at '" \o key \o "': "
                                    \o Outcome(inner[i].p, Undefined).reason)
                        /\ inner[i].p \in C5_Typed
                             => result.reason = "Failed at '" \o key
                                                 \o "': typeof value is undefined"
                        /\ inner[i].p \in C5_Accepting
                             => /\ isSuccess(Outcome(inner[i].p, Undefined))
                                /\ i = Len(parser.validators) => isSuccess(result)

\* the object succeeds although it lacks a declared field
C5_Witness ==
    /\ ObjectCase
    /\ EntryKeys(parser.validators) \ EntryKeys(input.v) # {}
    /\ EntryKeys(parser.validators) \cap EntryKeys(input.v) # {}
    /\ isSuccess(result)

RECURSIVE C6_Prefix(_)
C6_Prefix(path) ==
    IF path = <<>> THEN ""
    ELSE "Failed at '" \o Head(path) \o "': " \o C6_Prefix(Tail(path))

\* the invocations along the nesting that returned a failure
C6_Failing ==
    {i \in 1..Len(calls) :
       /\ calls[i].p = ParserAt(parser, calls[i].path)
       /\ isFailure(Outcome(calls[i].p, calls[i].v))}

\* the deepest of them: where the failure was detected
C6_Origin ==
    LET failing == C6_Failing
    IN  calls[CHOOSE i \in failing :
                \A j \in failing :
                  \/ Len(calls[j].path) < Len(calls[i].path)
                  \/ Len(calls[j].path) = Len(calls[i].path) /\ i <= j]

C6_Nestings == Parsers \ (Unions \cup Mapped)

(***************************************************************************)
(* C6: for any nesting of objectOf, indexedObjectOf and arrayOf, a failure *)
(* detected at a leaf has as reason the prefixes "Failed at '<k>': " of    *)
(* the keys and indices on the path from the outermost combinator to the   *)
(* leaf, in that order, followed by the reason of the parser that failed   *)
(* there, and as value the input of the outermost parser.                  *)
(***************************************************************************)
C6_Path ==
    (Done /\ parser \in C6_Nestings /\ isFailure(result))
      => LET origin == C6_Origin
         IN  result = failure(input,
                              C6_Prefix(origin.path)
                                \o Outcome(origin.p, origin.v).reason)

\* a string three levels down in the input is rejected
C6_Witness ==
    /\ Done /\ parser \in C6_Nestings /\ isFailure(result)
    /\ input \in DeepValues
    /\ Len(C6_Origin.path) = 3
    /\ C6_Origin.v = Str("s")

ArrayCase == Done /\ parser.k = "arrayOf" /\ input.t = "array"

MemberFails(i) == isFailure(Outcome(parser.validator, input.v[i]))

FirstRejected ==
    CHOOSE i \in 1..Len(input.v) :
      MemberFails(i) /\ \A j \in 1..(i - 1) : ~MemberFails(j)

(***************************************************************************)
(* C7: on an array with a rejected member, arrayOf returns the failure     *)
(* "Failed at '<i>': <reason>" of the smallest zero-based index i of a     *)
(* rejected member, carrying the whole array, and the member parser is     *)
(* invoked on the members up to i and on none after it.                    *)
(***************************************************************************)
C7_FirstRejected ==
    (ArrayCase /\ \E i \in 1..Len(input.v) : MemberFails(i))
      => LET inner == ChildCalls
             first == FirstRejected
         IN  /\ result = failure(input,
                           "Failed at '" \o ToString(first - 1) \o "': "
                             \o Outcome(parser.validator, input.v[first]).reason)
             /\ Len(inner) = first
             /\ \A j \in 1..first :
                  /\ inner[j].path = <<ToString(j - 1)>>
                  /\ inner[j].v = input.v[j]

\* the first of two rejected members is reported, the second is not visited
C7_Witness ==
    /\ ArrayCase
    /\ Len(input.v) = 2
    /\ MemberFails(1) /\ MemberFails(2)
    /\ input.v[1] # input.v[2]
    /\ Len(ChildCalls) = 1

(***************************************************************************)
(* C8: on an array whose members are all accepted, arrayOf returns Success *)
(* of the sequence of the validated outputs, of the same length and in the *)
(* same order; the empty array yields Success of the empty array.          *)
(***************************************************************************)
C8_Validated ==
    (ArrayCase /\ \A i \in 1..Len(input.v) : ~MemberFails(i))
      => /\ isSuccess(result)
         /\ result.value.t = "array"
         /\ Len(result.value.v) = Len(input.v)
         /\ \A i \in 1..Len(input.v) :
              result.value.v[i] = Outcome(parser.validator, input.v[i]).value

\* two different members, both accepted
C8_Witness ==
    /\ ArrayCase
    /\ Len(input.v) = 2
    /\ input.v[1] # input.v[2]
    /\ isSuccess(result)

(***************************************************************************)
(* C9: isArray succeeds iff the input is an array and otherwise fails with *)
(* the reason "value is not Array.isArray" carrying the input; arrayOf(p)  *)
(* on a value that is not an array returns that failure without invoking p.*)
(***************************************************************************)
C9_NotArray ==
    (Done /\ parser.k \in {"isArray", "arrayOf"})
      => /\ input.t # "array"
           => /\ result = failure(input, "value is not Array.isArray")
              /\ Len(calls) = 1
         /\ (parser.k = "isArray" /\ input.t = "array") => result = success(input)

\* arrayOf turns down an object
C9_Witness ==
    /\ Done /\ parser.k = "arrayOf" /\ input.t = "object"
    /\ isFailure(result)

OneOfCase == Done /\ parser.k = "oneOf"

Alts == <<parser.parser>> \o parser.parsers

AltSucceeds(i) == isSuccess(Outcome(Alts[i], input))

FirstMatch ==
    CHOOSE i \in 1..Len(Alts) :
      AltSucceeds(i) /\ \A j \in 1..(i - 1) : ~AltSucceeds(j)

\* the invocations of the alternatives: those made on the input itself
AltCalls == SelectSeq(Tail(calls), LAMBDA c : c.path = <<>>)

(***************************************************************************)
(* C10: oneOf(p1, ..., pN) applies the parsers to the same input in the    *)
(* given order and returns the Success of the first one that succeeds;     *)
(* the parsers after it are not invoked.                                   *)
(***************************************************************************)
C10_FirstMatch ==
    (OneOfCase /\ \E i \in 1..Len(Alts) : AltSucceeds(i))
      => LET tried == AltCalls
             first == FirstMatch
         IN  /\ result = Outcome(Alts[first], input)
             /\ Len(tried) = first
             /\ \A j \in 1..first : tried[j].p = Alts[j] /\ tried[j].v = input

\* the second alternative wins although the third accepts the input as well
C10_Witness ==
    /\ OneOfCase
    /\ input.t = "object"
    /\ Len(Alts) = 3
    /\ ~AltSucceeds(1) /\ AltSucceeds(2) /\ AltSucceeds(3)
    /\ Outcome(Alts[3], input) # Outcome(Alts[2], input)
    /\ Len(AltCalls) = 2

\* the aggregate Failure of N validators
Aggregate(value, n) ==
    failure(value, "'" \o JSString(value) \o "' did not match any of "
                     \o ToString(n) \o " validators")

(***************************************************************************)
(* C11: when every one of the N >= 1 parsers given to oneOf fails (N = 1   *)
(* included), the result is one aggregate Failure whose value is the input *)
(* and whose reason is "'<input>' did not match any of <N> validators"; no *)
(* reason of an individual parser appears in it.                           *)
(***************************************************************************)
C11_Aggregate ==
    \A p \in Alternatives, ps \in SeqsUpTo(Alternatives, MaxAlts) :
      (/\ Done
       /\ parser = oneOf(p, ps)
       /\ \A q \in {p} \cup {ps[i] : i \in 1..Len(ps)} :
            isFailure(Outcome(q, input)))
        => result = Aggregate(input, Len(ps) + 1)

\* the runtime kind a typeof-style reason names
C12_Name(value) ==
    CASE value.t = "null" -> "null"
      [] value.t \in {"array", "object"} -> "object"
      [] OTHER -> value.t

\* the kind a primitive parser accepts
C12_Accepts ==
    CASE parser.k = "isString" -> "string"
      [] parser.k = "isNumber" -> "number"
      [] parser.k = "isBoolean" -> "boolean"
      [] parser.k = "isUndefined" -> "undefined"

(***************************************************************************)
(* C12: isString, isNumber, isBoolean and isUndefined return Success(v)    *)
(* exactly when the runtime kind of v is the parser's kind; otherwise they *)
(* return a Failure whose value is v and whose reason is "typeof value is  *)
(* <kind>", the kind being "null" for null and the typeof name otherwise.  *)
(***************************************************************************)
C12_Primitive ==
    (Done /\ parser.k \in {"isString", "isNumber", "isBoolean", "isUndefined"})
      => IF input.t = C12_Accepts
         THEN result = success(input)
         ELSE result = [type |-> "failure", value |-> input,
                        reason |-> "typeof value is " \o C12_Name(input)]

\* null is given to a primitive parser
C12_Witness ==
    /\ Done
    /\ parser = isNumberP
    /\ input = Null
    /\ isFailure(result)
    /\ result.reason = "typeof value is null"

(***************************************************************************)
(* C13: isObject succeeds exactly when the input is a non-null, non-array  *)
(* object; for null, for arrays and for every non-object input it returns  *)
(* the typeof-style Failure whose value is the input.                      *)
(***************************************************************************)
C13_PlainObject ==
    (Done /\ parser = isObjectP)
      => IF input.t = "object"
         THEN result = success(input)
         ELSE result = [type |-> "failure", value |-> input,
                        reason |-> "typeof value is " \o C12_Name(input)]

\* the text of a literal inside a reason
C14_Text(option) ==
    CASE option.t = "number" -> ToString(option.v)
      [] option.t = "string" -> option.v
      [] option.t = "boolean" -> IF option.v THEN "true" ELSE "false"

(***************************************************************************)
(* C14: isExactly(literal)(v) returns Success(literal) exactly when v is   *)
(* strictly equal to the literal, in value and in kind (isExactly(1)('1')  *)
(* fails); otherwise it returns a Failure whose value is v and whose       *)
(* reason is "is not <literal>".                                           *)
(***************************************************************************)
C14_Exactly ==
    (Done /\ parser.k = "isExactly")
      => IF input.t = parser.option.t /\ input.v = parser.option.v
         THEN result = success(parser.option)
         ELSE result = [type |-> "failure", value |-> input,
                        reason |-> "is not " \o C14_Text(parser.option)]

\* isExactly(1)('1')
C14_Witness ==
    /\ Done
    /\ parser = isExactlyP(Num(1))
    /\ input = Str("1")
    /\ result = [type |-> "failure", value |-> Str("1"), reason |-> "is not 1"]

\* what a direct call of the wrapped parser on the input does
C15_Inner == Apply(parser.validator, input, <<>>)

(***************************************************************************)
(* C15: optional(p)(null) is Success(null) and voidable(p)(undefined) is   *)
(* Success(undefined), both without invoking p; on every other input the   *)
(* wrapper invokes p once on the input and returns exactly what p returns. *)
(* optional does not accept undefined nor voidable null:                   *)
(* optional(isNumber)(undefined) and voidable(isNumber)(null) both fail.   *)
(***************************************************************************)
C15_Absent ==
    (Done /\ parser.k \in {"optional", "voidable"})
      => LET absent == IF parser.k = "optional" THEN Null ELSE Undefined
             inner == C15_Inner
         IN  /\ input = absent => result = success(absent) /\ Len(calls) = 1
             /\ input # absent => result = inner.res /\ Tail(calls) = inner.calls
             /\ (parser = optional(isNumberP) /\ input = Undefined)
                  => isFailure(result)
             /\ (parser = voidable(isNumberP) /\ input = Null)
                  => isFailure(result)

\* optional(isNumber)(undefined): the wrapped parser is invoked and fails
C15_Witness ==
    /\ Done
    /\ parser = optional(isNumberP)
    /\ input = Undefined
    /\ isFailure(result)
    /\ Len(calls) = 2

MapCase == Done /\ parser.k = "mapParser"

\* what a direct call of the first parser on the input does
C16_First == Apply(parser.validator, input, <<>>)

\* what a direct call of next on the validated value does
C16_Second == Apply(parser.next, C16_First.res.value, <<>>)

(***************************************************************************)
(* C16: mapParser(parser, next)(input) runs parser on the input first;     *)
(* next is invoked, exactly once and on the validated value, only when     *)
(* parser succeeded.  When next returns a Failure, the Failure returned    *)
(* keeps the reason of next but carries the original input as its value;   *)
(* when next returns a Success, that Success is returned unchanged.        *)
(***************************************************************************)
C16_MapParser ==
    MapCase
      => LET first == C16_First
             after == SubSeq(calls, 2 + Len(first.calls), Len(calls))
         IN  /\ calls[1].p = parser
             /\ SubSeq(calls, 2, 1 + Len(first.calls)) = first.calls
             /\ isFailure(first.res) => after = <<>> /\ isFailure(result)
             /\ isSuccess(first.res) =>
                  LET second == C16_Second
                  IN  /\ after = second.calls
                      /\ isSuccess(second.res) => result = second.res
                      /\ isFailure(second.res) =>
                           result = [type |-> "failure", value |-> input,
                                     reason |-> second.res.reason]

\* next rejects a validated value that differs from the input
C16_Witness ==
    /\ MapCase
    /\ isSuccess(C16_First.res)
    /\ C16_First.res.value # input
    /\ isFailure(C16_Second.res)
    /\ C16_Second.res.value = C16_First.res.value
    /\ isFailure(result)
    /\ result.value = input

(***************************************************************************)
(* C17: indexedObjectOf(p) rejects null and undefined with the reason      *)
(* "value is null or undefined" and every other non-object input (number,  *)
(* string, boolean) with the typeof-style Failure; in both cases the value *)
(* of the Failure is the input and p is never invoked.                     *)
(***************************************************************************)
C17_NotIndexed ==
    (Done /\ parser.k = "indexedObjectOf" /\ ~IsContainer(input))
      => /\ Len(calls) = 1
         /\ result =
              [type |-> "failure", value |-> input,
               reason |-> IF input.t \in {"null", "undefined"}
                          THEN "value is null or undefined"
                          ELSE "typeof value is " \o input.t]

\* undefined is given to indexedObjectOf
C17_Witness ==
    /\ Done
    /\ parser.k = "indexedObjectOf"
    /\ input = Undefined
    /\ isFailure(result)
    /\ result.reason = "value is null or undefined"

IndexedCase == Done /\ parser.k = "indexedObjectOf" /\ input.t = "object"

\* what a direct call of the element parser on the value of key returns
C18_Element(key) == Outcome(parser.parser, Lookup(input.v, key))

(***************************************************************************)
(* C18: on an object input indexedObjectOf(p) applies p to the values of   *)
(* the keys of the input, to none of them twice.  When p succeeds on all   *)
(* of them, every key has been visited exactly once and the result is the  *)
(* Success of a map with exactly the keys of the input, each mapped to the *)
(* output of p for it.  When p fails on some key, the result is the        *)
(* Failure "Failed at '<key>': <inner reason>" for the first failing key   *)
(* visited, and its value is the whole input map.                          *)
(***************************************************************************)
C18_Indexed ==
    IndexedCase
      => LET inner == ChildCalls
             keys == EntryKeys(input.v)
             visited == {inner[i].path[1] : i \in 1..Len(inner)}
         IN  /\ visited \subseteq keys
             /\ Cardinality(visited) = Len(inner)
             /\ \A i \in 1..Len(inner) :
                  inner[i].v = Lookup(input.v, inner[i].path[1])
             /\ IF \A key \in keys : isSuccess(C18_Element(key))
                THEN /\ visited = keys
                     /\ isSuccess(result)
                     /\ result.value.t = "object"
                     /\ EntryKeys(result.value.v) = keys
                     /\ Len(result.value.v) = Cardinality(keys)
                     /\ \A key \in keys :
                          Lookup(result.value.v, key) = C18_Element(key).value
                ELSE LET key == inner[Len(inner)].path[1]
                     IN  /\ \A i \in 1..(Len(inner) - 1) :
                              isSuccess(C18_Element(inner[i].path[1]))
                         /\ isFailure(C18_Element(key))
                         /\ result =
                              [type |-> "failure", value |-> input,
                               reason |-> "Failed at '" \o key \o "': "
                                            \o C18_Element(key).reason]

\* both keys of a two-key map are validated
C18_Witness ==
    /\ IndexedCase
    /\ Len(input.v) = 2
    /\ isSuccess(result)
    /\ Len(ChildCalls) = 2

\* the first key visited of a two-key map fails: the other is not visited
C18_WitnessFailure ==
    /\ IndexedCase
    /\ Len(input.v) = 2
    /\ isFailure(result)
    /\ Len(ChildCalls) = 1

(***************************************************************************)
(* C19: every parser is total over the values: on any input the call       *)
(* terminates and returns exactly one Result, a Success or a Failure; it   *)
(* never throws.                                                           *)
(***************************************************************************)
C19_Total == Done => (isSuccess(result) \/ isFailure(result))

(***************************************************************************)
(* References.  An object or an array is held by reference: the caller and *)
(* every Result that was given the input hold the same object, which is    *)
(* told from a structurally equal one by its ref field.  The objects and   *)
(* arrays the parsers create themselves ({} and [], Obj and Arr) carry no  *)
(* ref.                                                                    *)
(***************************************************************************)
Ref(value) ==
    IF IsContainer(value)
    THEN [t |-> value.t, v |-> value.v, ref |-> "input"]
    ELSE value

\* whether the value is the very object the caller passed
IsInput(value) == "ref" \in DOMAIN value /\ value.ref = "input"

\* value[key] = x, on an object or on an array up to its end
Assign(value, key, x) ==
    IF value.t = "object"
    THEN [value EXCEPT !.v = Put(value.v, key, x)]
    ELSE IF IndexOf(key) < Len(value.v)
         THEN [value EXCEPT !.v[IndexOf(key) + 1] = x]
         ELSE [value EXCEPT !.v = Append(value.v, x)]

AliasParsers ==
    {isNumberP, isObjectP, isAnyValueP, optional(isNumberP),
     objectOf(<<<<"a", isStringP>>>>), indexedObjectOf(isNumberP),
     arrayOf(isNumberP), oneOf(isNumberP, <<isStringP>>),
     mapParserP(isAnyValueP, isExactlyP(Num(1)))}

AliasValues == {Null, Num(1), Str("s")} \cup FlatArrays \cup FlatObjects

\* a caller obtains a value to validate and keeps hold of it
ReceiveRef(value) ==
    /\ pc = "composed"
    /\ input' = Ref(value)
    /\ pc' = "ready"
    /\ UNCHANGED <<parser, result, calls>>
    /\ UNCHANGED others

\* after the call has returned, the caller assigns a property of the input;
\* what a Result holding the same object shows changes with it
Mutate(key, x) ==
    /\ pc = "done"
    /\ IsContainer(input)
    /\ input.t = "array" => IsIndexKey(key) /\ IndexOf(key) <= Len(input.v)
    /\ Assign(input, key, x) # input
    /\ input' = Assign(input, key, x)
    /\ result' = IF result # Thrown /\ IsInput(result.value)
                 THEN [result EXCEPT !.value = input']
                 ELSE result
    /\ pc' = "mutated"
    /\ UNCHANGED <<parser, calls>>
    /\ UNCHANGED others

NextAlias ==
    \/ \E p \in AliasParsers : Compose(p)
    \/ \E value \in AliasValues : ReceiveRef(value)
    \/ Call
    \/ \E key \in {"a", "0"}, x \in {Num(0), Str("s")} : Mutate(key, x)

SpecAlias == Init /\ [][NextAlias]_vars

(***************************************************************************)
(* C20: the value of a Failure is a snapshot of the input at the moment of *)
(* failure: a mutation of the original input after the parser has returned *)
(* leaves the value of the Failure unchanged.                              *)
(***************************************************************************)
C20_Snapshot ==
    [][(pc = "done" /\ pc' = "mutated" /\ isFailure(result))
         => result'.value = result.value]_vars

(***************************************************************************)
(* Reuse.  A parser is composed once and then called many times, by        *)
(* several callers, each call running to completion before the next.       *)
(***************************************************************************)
Callers == {"c1", "c2"}

CallParsers ==
    {isNumberP, objectOf(<<<<"a", isStringP>>>>), indexedObjectOf(isNumberP),
     arrayOf(isNumberP), oneOf(isNumberP, <<isStringP>>),
     optional(isNumberP)}

CallValues ==
    {Num(1), Str("s"), Arr(<<Num(1)>>), Obj(<<<<"a", Num(1)>>>>),
     Obj(<<<<"b", Num(1)>>>>), Obj(<<<<"a", Str("s")>>, <<"b", Num(1)>>>>)}

\* caller calls parser(value) and keeps the Result
CallBy(caller, value) ==
    /\ pc = "composed"
    /\ Len(history) < MaxCalls
    /\ LET e == Apply(parser, value, <<>>)
       IN  /\ history' = Append(history, [caller |-> caller, input |-> value,
                                          result |-> e.res])
           /\ scratch' = IF /\ parser.k \in {"objectOf", "indexedObjectOf"}
                            /\ isSuccess(e.res)
                         THEN e.res.value.v
                         ELSE scratch
    /\ UNCHANGED <<pc, parser, input, result, calls, endpoint, written, buffers>>

NextCalls ==
    \/ \E p \in CallParsers : Compose(p)
    \/ \E caller \in Callers, value \in CallValues : CallBy(caller, value)

SpecCalls == Init /\ [][NextCalls]_vars

Reshaping ==
    {oneOf(indexedObjectOf(indexedObjectOf(isNumberP)),
           <<objectOf(<<<<"a", isArrayP>>>>)>>)}

RoundTripParsers == (Parsers \ Mapped) \cup Reshaping

RoundTripValues ==
    Values \cup {Obj(<<<<"a", Arr(<<Num(1)>>)>>, <<"b", Str("s")>>>>)}

\* the caller passes the validated output to the same parser; history keeps
\* the first call
Reparse ==
    /\ pc = "done"
    /\ isSuccess(result)
    /\ history' = <<[caller |-> "c1", input |-> input, result |-> result]>>
    /\ input' = result.value
    /\ LET e == Apply(parser, result.value, <<>>)
       IN  /\ result' = e.res
           /\ calls' = e.calls
    /\ pc' = "reparsed"
    /\ UNCHANGED <<parser, scratch, endpoint, written, buffers>>

NextRoundTrip ==
    \/ \E p \in RoundTripParsers : Compose(p)
    \/ \E value \in RoundTripValues : Receive(value)
    \/ Call
    \/ Reparse

SpecRoundTrip == Init /\ [][NextRoundTrip]_vars

RECURSIVE OneOfFree(_)
\* no oneOf of two or more parsers in the composition of p
OneOfFree(p) ==
    CASE p.k \in {"optional", "voidable", "arrayOf"} -> OneOfFree(p.validator)
      [] p.k = "indexedObjectOf" -> OneOfFree(p.parser)
      [] p.k = "objectOf" ->
           \A i \in 1..Len(p.validators) : OneOfFree(p.validators[i][2])
      [] p.k = "oneOf" -> FALSE
      [] OTHER -> TRUE

(***************************************************************************)
(* C22 as claimed: for every parser p built from the primitives and the    *)
(* structural combinators and every input v with p(v) = Success(o), p(o)   *)
(* is a Success whose value is structurally equal to o.                    *)
(***************************************************************************)
C22_RoundTrip ==
    pc = "reparsed" => (isSuccess(result) /\ result.value = input)

(***************************************************************************)
(* C22 as amended: p(o) is a Success as well, and its value is             *)
(* structurally equal to o when no oneOf occurs in p.                      *)
(***************************************************************************)
C22_Reaccepted ==
    pc = "reparsed"
      => /\ isSuccess(result)
         /\ OneOfFree(parser) => result.value = input

\* the first call dropped or reshaped part of its input, and the output is
\* accepted again as it is
C22_Witness ==
    /\ pc = "reparsed"
    /\ OneOfFree(parser)
    /\ IsContainer(history[1].input)
    /\ history[1].input # input
    /\ isSuccess(result)
    /\ result.value = input

(***************************************************************************)
(* The Result catamorphisms on their own.  A callback is any function: it  *)
(* is known by its name, and what it returns for an argument is the        *)
(* application of the name to the argument.                                *)
(***************************************************************************)
Image(f, arg) == [by |-> f, of |-> arg]

\* f(arg): the invocation is logged
Callback(f, arg) ==
    [res |-> Image(f, arg), calls |-> <<Invocation(f, arg, <<>>)>>]

Callbacks == {"f", "g", "h"}

GivenResults ==
    {success(v) : v \in Primitives \cup {Arr(<<Num(1)>>)}}
      \cup {failure(v, r) : v \in {Null, Num(1), Arr(<<Num(1)>>)},
                            r \in {"is not 1", "typeof value is null"}}

\* a Result is at hand
Given(r) ==
    /\ pc = "compose"
    /\ input' = r
    /\ pc' = "given"
    /\ UNCHANGED <<parser, result, calls>>
    /\ UNCHANGED others

\* mapSuccess(input, f)
MapSuccess(f) ==
    /\ pc = "given"
    /\ parser' = [k |-> "mapSuccess", next |-> f]
    /\ LET e == mapSuccess(Pure(input), Callback(f, input.value))
       IN  result' = e.res /\ calls' = e.calls
    /\ pc' = "mapped"
    /\ UNCHANGED input
    /\ UNCHANGED others

\* mapFailure(input, f)
MapFailure(f) ==
    /\ pc = "given"
    /\ parser' = [k |-> "mapFailure", next |-> f]
    /\ LET e == mapFailure(Pure(input), Callback(f, input))
       IN  result' = e.res /\ calls' = e.calls
    /\ pc' = "mapped"
    /\ UNCHANGED input
    /\ UNCHANGED others

\* mapResult(input, f, g)
MapResult(f, g) ==
    /\ pc = "given"
    /\ parser' = [k |-> "mapResult", success |-> f, failure |-> g]
    /\ LET e == mapResult(Pure(input), Callback(f, input.value),
                          Callback(g, input))
       IN  result' = e.res /\ calls' = e.calls
    /\ pc' = "mapped"
    /\ UNCHANGED input
    /\ UNCHANGED others

NextMap ==
    \/ \E r \in GivenResults : Given(r)
    \/ \E f \in Callbacks : MapSuccess(f)
    \/ \E f \in Callbacks : MapFailure(f)
    \/ \E f, g \in Callbacks : MapResult(f, g)

SpecMap == Init /\ [][NextMap]_vars

\* exactly one invocation, of f on arg, and its return value came back
C23_Only(f, arg) ==
    /\ calls = <<[p |-> f, v |-> arg, path |-> <<>>]>>
    /\ result = [by |-> f, of |-> arg]

\* no invocation, and the Result came back as it was
C23_Unchanged == calls = <<>> /\ result = input

(***************************************************************************)
(* C23: the catamorphisms invoke only the callback matching the tag of the *)
(* Result, exactly once.  mapSuccess returns f(value) on a Success and     *)
(* returns a Failure unchanged without calling f; mapFailure returns       *)
(* f(failure) on a Failure and returns a Success unchanged without calling *)
(* f; mapResult invokes exactly one of its two callbacks and returns what  *)
(* that callback returns.                                                  *)
(***************************************************************************)
C23_Catamorphisms ==
    pc = "mapped"
      => CASE parser.k = "mapSuccess" ->
                IF input.type = "success"
                THEN C23_Only(parser.next, input.value)
                ELSE C23_Unchanged
           [] parser.k = "mapFailure" ->
                IF input.type = "failure"
                THEN C23_Only(parser.next, input)
                ELSE C23_Unchanged
           [] parser.k = "mapResult" ->
                IF input.type = "success"
                THEN C23_Only(parser.success, input.value)
                ELSE C23_Only(parser.failure, input)

\* mapSuccess is given a Failure
C23_Witness ==
    /\ pc = "mapped"
    /\ parser.k = "mapSuccess"
    /\ input.type = "failure"
    /\ result = input
    /\ calls = <<>>

(***************************************************************************)
(* Routing (packages/serve/src/serve.ts).  A URL is the sequence of its    *)
(* characters.  A Request is its method and URL.  Routes, responders and   *)
(* handlers are closures; here each is a record naming the function that   *)
(* built it and its captured arguments.  Handle and Respond run them and   *)
(* log every function they invoke with the request it was given.  A        *)
(* rejected promise is the Result Thrown.                                  *)
(***************************************************************************)
RECURSIVE Text(_)
\* the string of a sequence of characters
Text(chars) == IF chars = <<>> THEN "" ELSE Head(chars) \o Text(Tail(chars))

\* url.startsWith(pathPrefix)
StartsWith(url, pathPrefix) ==
    /\ Len(pathPrefix) <= Len(url)
    /\ SubSeq(url, 1, Len(pathPrefix)) = pathPrefix

\* url.slice(n)
Slice(url, n) == SubSeq(url, n + 1, Len(url))

STATUSES(status) ==
    CASE status = 200 -> "Success"
      [] status = 201 -> "Created"
      [] status = 404 -> "Not Found"
      [] status = 500 -> "Internal Server Error"

\* JSON.stringify of a string, a number or an object of such
RECURSIVE Stringify(_)
RECURSIVE StringifyEntries(_, _)
StringifyEntries(entries, i) ==
    IF i > Len(entries)
    THEN ""
    ELSE (IF i > 1 THEN "," ELSE "") \o "\"" \o entries[i][1] \o "\":"
           \o Stringify(entries[i][2]) \o StringifyEntries(entries, i + 1)

Stringify(json) ==
    CASE json.t = "string" -> "\"" \o json.v \o "\""
      [] json.t = "number" -> ToString(json.v)
      [] json.t = "object" -> "{" \o StringifyEntries(json.v, 1) \o "}"

\* a Response: status, headers and the text the body stream carries
jsonResponse(status, headers, json) ==
    [status |-> status,
     headers |-> Put(Put(headers, "content-type", "application/json"),
                     "content-length", Len(Stringify(json))),
     body |-> Stringify(json)]

method(m) == [k |-> "method", method |-> m]
exactPath(path) == [k |-> "exactPath", path |-> path]
prefix(pathPrefix) == [k |-> "prefix", pathPrefix |-> pathPrefix]

\* sendJson(always([status, {}, json]))
sendJson(status, json) == [k |-> "sendJson", status |-> status, json |-> json]
\* a responder that throws or returns a rejected promise
rejecting == [k |-> "rejecting"]
notFound == [k |-> "notFound"]
withPrefix(handler) == [k |-> "withPrefix", handler |-> handler]

route(r, responder) == [k |-> "route", route |-> r, responder |-> responder]

routes(handler, handlers) ==
    IF Len(handlers) = 0
    THEN handler
    ELSE [k |-> "routes", handler |-> handler, handlers |-> handlers]

routeNamespace(pathPrefix, handler) ==
    route(prefix(pathPrefix), withPrefix(handler))

\* route(request) for the three routes
Match(r, request) ==
    Then([res |-> success(request), calls |-> <<Invocation(r, request, <<>>)>>],
         Pure(CASE r.k = "method" ->
                     IF request.method = r.method
                     THEN success(r.method)
                     ELSE failure(request, "method is " \o request.method)
                [] r.k = "exactPath" ->
                     IF request.url = r.path
                     THEN success(r.path)
                     ELSE failure(request, "Path " \o Text(request.url)
                                             \o " is not " \o Text(r.path))
                [] r.k = "prefix" ->
                     IF StartsWith(request.url, r.pathPrefix)
                     THEN success(r.pathPrefix)
                     ELSE failure(request, "URL does not begin with "
                                             \o Text(r.pathPrefix))))

RECURSIVE Handle(_, _)
RECURSIVE Respond(_, _, _)
RECURSIVE routesLoop(_, _, _)

\* the Response an awaited responder gave, wrapped by success
Responded(e) ==
    IF e.res = Thrown THEN e ELSE [res |-> success(e.res), calls |-> e.calls]

\* A variant of withPrefixCall: the handler is given the request as it
\* came.
withPrefixCallWhole(handler, context, request) ==
    LET handled == Handle(handler, request)
        answered ==
          mapFailure(handled,
            Pure(success(jsonResponse(404, <<>>,
                   Obj(<<<<"status", Str("not-found")>>,
                         <<"reason", Str(handled.res.reason)>>>>)))))
    IN  IF answered.res = Thrown
        THEN answered
        ELSE [res |-> answered.res.value, calls |-> answered.calls]

\* the body of withPrefix(handler): context is the matched prefix
withPrefixCall(handler, context, request) ==
    LET prefixed == [request EXCEPT !.url = Slice(request.url, Len(context))]
        handled == Handle(handler, prefixed)
        answered ==
          mapFailure(handled,
            Pure(success(jsonResponse(404, <<>>,
                   Obj(<<<<"status", Str("not-found")>>,
                         <<"reason", Str(handled.res.reason)>>>>)))))
    IN  IF answered.res = Thrown
        THEN answered
        ELSE [res |-> answered.res.value, calls |-> answered.calls]

\* responder(context, request), awaited: a Response, or Thrown
Respond(responder, context, request) ==
    Then([res |-> success(request),
          calls |-> <<Invocation(responder, request, <<>>)>>],
         CASE responder.k = "sendJson" ->
                Pure(jsonResponse(responder.status, <<>>, responder.json))
           [] responder.k = "notFound" ->
                Pure(jsonResponse(404, <<>>,
                                  Obj(<<<<"status", Str("not-found")>>>>)))
           [] responder.k = "rejecting" -> Pure(Thrown)
           [] responder.k = "withPrefix" ->
                withPrefixCall(responder.handler, context, request))

\* A variant of routesLoop: the handlers after the first Success are
\* called as well.
routesLoopAll(endpoints, i, request) ==
    IF i > Len(endpoints)
    THEN Pure(failure(request, "No matching result"))
    ELSE LET handled == Handle(endpoints[i], request)
             later == routesLoop(endpoints, i + 1, request)
         IN  IF isSuccess(handled.res)
             THEN [res |-> handled.res, calls |-> handled.calls \o later.calls]
             ELSE Then(handled, later)

\* the loop of routes over [handler, ...handlers] from the i-th on
routesLoop(endpoints, i, request) ==
    IF i > Len(endpoints)
    THEN Pure(failure(request, "No matching result"))
    ELSE LET handled == Handle(endpoints[i], request)
         IN  IF isSuccess(handled.res)
             THEN handled
             ELSE Then(handled, routesLoop(endpoints, i + 1, request))

\* handler(request), awaited: a Result, or Thrown
Handle(h, request) ==
    Then([res |-> success(request), calls |-> <<Invocation(h, request, <<>>)>>],
         CASE h.k = "route" ->
                LET matched == Match(h.route, request)
                IN  mapSuccess(matched,
                      Responded(Respond(h.responder, matched.res.value, request)))
           [] h.k = "routes" ->
                routesLoop(<<h.handler>> \o h.handlers, 1, request))

(***************************************************************************)
(* A server under test: routes(...handlers) is mounted together with a     *)
(* default handler, and then either the handler is called with a Request   *)
(* or the endpoint of serve receives an IncomingMessage.                   *)
(***************************************************************************)
MaxRoutes == 2

Methods == {"GET", "POST"}

Urls == {<<"/">>, <<"/", "a">>, <<"/", "b">>, <<"/", "a", "/", "b">>}

Requests == [method : Methods, url : Urls]

\* req.method and req.url may be undefined on an IncomingMessage: the
\* record then has no such field
IncomingMessages ==
    [method : Methods, url : Urls] \cup [method : Methods] \cup [url : Urls]

Ok == Obj(<<<<"status", Str("ok")>>>>)

Endpoints ==
    {route(method("POST"), sendJson(201, Ok)),
     route(exactPath(<<"/", "a">>), sendJson(200, Str("a"))),
     route(exactPath(<<"/", "b">>), sendJson(200, Str("b"))),
     route(method("GET"), rejecting)}

Namespaces ==
    {routeNamespace(<<"/", "a">>, route(exactPath(<<"/", "b">>), sendJson(200, Str("b")))),
     routeNamespace(<<"/", "a">>,
        routes(route(method("POST"), sendJson(201, Ok)),
               <<route(exactPath(<<"/", "b">>), sendJson(200, Str("b")))>>)),
     routeNamespace(<<"/", "b">>, route(method("GET"), rejecting))}

Handlers == Endpoints \cup Namespaces

HandlerLists == UNION {[1..n -> Handlers] : n \in 1..MaxRoutes}

DefaultHandlers == {notFound, sendJson(500, Str("error")), rejecting}

\* serve(routes(...handlers), defaultHandler)
Mount(handlers, defaultHandler) ==
    /\ pc = "compose"
    /\ pc' = "mounted"
    /\ endpoint' = [handler |-> routes(Head(handlers), Tail(handlers)),
                    handlers |-> handlers,
                    defaultHandler |-> defaultHandler]
    /\ UNCHANGED <<parser, input, result, calls, history, scratch, written, buffers>>

\* const result = await handler(request)
Dispatch(request) ==
    /\ pc = "mounted"
    /\ pc' = "handled"
    /\ input' = request
    /\ LET e == Handle(endpoint.handler, request)
       IN  result' = e.res /\ calls' = e.calls
    /\ UNCHANGED <<parser, history, scratch, endpoint, written, buffers>>

\* the Request the endpoint builds from an IncomingMessage
RequestOf(req) ==
    [method |-> IF "method" \in DOMAIN req THEN req.method ELSE "GET",
     url |-> IF "url" \in DOMAIN req THEN req.url ELSE <<"/">>]

\* res.writeHead(status, STATUSES[status], headers); stream.pipe(res)
Writes(response) ==
    <<[op |-> "writeHead", status |-> response.status,
       text |-> STATUSES(response.status), headers |-> response.headers],
      [op |-> "pipe", body |-> response.body]>>

\* A variant of serveCall: the default handler is consulted whatever the
\* handler returned.
serveCallAlways(handler, defaultHandler, req) ==
    LET request == RequestOf(req)
        answered == Then(Handle(handler, request),
                         Responded(Respond(defaultHandler, Null, request)))
    IN  IF answered.res = Thrown
        THEN [res |-> Thrown, calls |-> answered.calls, written |-> <<>>]
        ELSE [res |-> answered.res.value, calls |-> answered.calls,
              written |-> Writes(answered.res.value)]

\* the endpoint of serve, run on one IncomingMessage
serveCall(handler, defaultHandler, req) ==
    LET request == RequestOf(req)
        answered == mapFailure(Handle(handler, request),
                               Responded(Respond(defaultHandler, Null, request)))
    IN  IF answered.res = Thrown
        THEN [res |-> Thrown, calls |-> answered.calls, written |-> <<>>]
        ELSE [res |-> answered.res.value, calls |-> answered.calls,
              written |-> Writes(answered.res.value)]

Serve(req) ==
    /\ pc = "mounted"
    /\ pc' = "served"
    /\ input' = req
    /\ LET e == serveCall(endpoint.handler, endpoint.defaultHandler, req)
       IN  result' = e.res /\ calls' = e.calls /\ written' = e.written
    /\ UNCHANGED <<parser, history, scratch, endpoint, buffers>>

NextServer ==
    \/ \E handlers \in HandlerLists, defaultHandler \in DefaultHandlers :
          Mount(handlers, defaultHandler)
    \/ \E request \in Requests : Dispatch(request)
    \/ \E req \in IncomingMessages : Serve(req)

SpecServer == Init /\ [][NextServer]_vars

\* the handler has been called with the Request in input
Handled == pc = "handled"

\* what the i-th handler given to routes does on its own with the request
Alone(i) == Handle(endpoint.handlers[i], input)

\* the handlers given to routes that do not return a Failure
Settling == {i \in 1..Len(endpoint.handlers) : ~isFailure(Alone(i).res)}

\* the last handler routes gets to
Last ==
    IF Settling = {}
    THEN Len(endpoint.handlers)
    ELSE CHOOSE i \in Settling : \A j \in Settling : i <= j

RECURSIVE InOrder(_)
\* the calls of the first n handlers, one handler after the other
InOrder(n) == IF n = 0 THEN <<>> ELSE InOrder(n - 1) \o Alone(n).calls

\* the calls made below the function routes returned
Below == IF Len(endpoint.handlers) = 1 THEN calls ELSE Tail(calls)

\* C25 (as stated): when every handler given to routes returns a Failure,
\* the result is the Failure carrying the request with the reason
\* 'No matching result'.
C25_NoMatch ==
    (Handled /\ Settling = {})
        => result = failure(input, "No matching result")

\* C25: routes(h1, ..., hN) calls the handlers one after the other in the
\* given order, each with the same request, and stops at the first that
\* returns a Success, which is the result; no later handler is called.
\* When they all return a Failure, the result is a Failure carrying the
\* request: with the reason 'No matching result' when N >= 2, and the
\* Failure of h1 itself when N = 1.
C25_FirstSuccess ==
    Handled =>
        /\ Below = InOrder(Last)
        /\ \A i \in 1..Last : Alone(i).calls[1].v = input
        /\ Settling # {} => result = Alone(Last).res
        /\ Settling = {} =>
              /\ isFailure(result)
              /\ result.value = input
              /\ Len(endpoint.handlers) >= 2 => result.reason = "No matching result"
              /\ Len(endpoint.handlers) = 1 => result = Alone(1).res

\* two handlers were given, the first returned a Success and the second
\* was given after it
C25_Witness ==
    /\ Handled
    /\ Len(endpoint.handlers) = 2
    /\ isSuccess(result)
    /\ Last = 1
    /\ endpoint.handlers[2] # endpoint.handlers[1]

\* two handlers were given and both returned a Failure
C25_WitnessNoMatch ==
    /\ Handled
    /\ Len(endpoint.handlers) = 2
    /\ Settling = {}
    /\ Len(calls) > 3

\* the endpoint of serve has run on the IncomingMessage in input
Served == pc = "served"

\* what the handler given to serve does on its own with the built request
Consulted == Handle(endpoint.handler, RequestOf(input))

\* the calls made after the handler returned
Afterwards == SubSeq(calls, Len(Consulted.calls) + 1, Len(calls))

\* the call of the default handler
Defaulted == Invocation(endpoint.defaultHandler, RequestOf(input), <<>>)

\* the response was written once: one writeHead with its status and
\* headers, then its body piped
WrittenOnce(response) ==
    /\ Len(written) = 2
    /\ written[1].op = "writeHead"
    /\ written[1].status = response.status
    /\ written[1].headers = response.headers
    /\ written[2] = [op |-> "pipe", body |-> response.body]

\* C26: the endpoint of serve(handler, defaultHandler) calls the handler
\* first and calls defaultHandler exactly when the handler returned a
\* Failure; the default defaultHandler answers 404 with the JSON body
\* {"status":"not-found"}.  Whichever of the two produced the response,
\* it is written once (one writeHead with its status and headers, then
\* its body piped) and it is what the endpoint returns.
C26_Serve ==
    Served =>
        /\ Head(calls) = Invocation(endpoint.handler, RequestOf(input), <<>>)
        /\ SubSeq(calls, 1, Len(Consulted.calls)) = Consulted.calls
        /\ isSuccess(Consulted.res) =>
              Afterwards = <<>> /\ result = Consulted.res.value
        /\ isFailure(Consulted.res) => Afterwards = <<Defaulted>>
        /\ (isFailure(Consulted.res) /\ endpoint.defaultHandler = notFound) =>
              /\ result.status = 404
              /\ result.body = "{\"status\":\"not-found\"}"
              /\ \E i \in 1..Len(result.headers) :
                    result.headers[i] = <<"content-type", "application/json">>
        /\ result # Thrown => WrittenOnce(result)

\* the handler returned a Failure and the default 404 was written
C26_Witness ==
    /\ Served
    /\ isFailure(Consulted.res)
    /\ endpoint.defaultHandler = notFound
    /\ Len(written) = 2
    /\ written[1].status = 404

\* the handler returned a Success on a message without url, which was
\* written
C26_WitnessSuccess ==
    /\ Served
    /\ isSuccess(Consulted.res)
    /\ Len(written) = 2
    /\ written[1].status = 201
    /\ "url" \notin DOMAIN input

\* the handlers given to routes that routeNamespace built
NamespacesGiven ==
    {i \in 1..Len(endpoint.handlers) :
        /\ endpoint.handlers[i].k = "route"
        /\ endpoint.handlers[i].route.k = "prefix"
        /\ endpoint.handlers[i].responder.k = "withPrefix"}

PrefixOf(i) == endpoint.handlers[i].route.pathPrefix

\* the request URL starts with the prefix of the i-th handler
PrefixMatches(i) == StartsWith(input.url, PrefixOf(i))

\* what the handler inside the i-th namespace does on its own with the
\* request whose URL has lost the prefix
Inner(i) ==
    Handle(endpoint.handlers[i].responder.handler,
           [input EXCEPT !.url = Slice(input.url, Len(PrefixOf(i)))])

\* the last n of the calls
LastCalls(log, n) == SubSeq(log, Len(log) - n + 1, Len(log))

\* the text of the 404 body carrying a reason
NotFoundBody(reason) ==
    "{\"status\":\"not-found\",\"reason\":\"" \o reason \o "\"}"

\* C29: once the request URL starts with the prefix, routeNamespace(prefix,
\* handler) does not return a Failure: handler is called with the request
\* whose URL has lost the prefix, and when it fails the result is a Success
\* carrying a 404 JSON response with the reason of that failure; so inside
\* routes(...) nothing listed after a namespace whose prefix matches is
\* called.  When the URL does not start with the prefix, handler is not
\* called and a Failure is returned.
C29_Namespace ==
    Handled =>
        \A i \in NamespacesGiven :
            /\ PrefixMatches(i) =>
                  /\ ~isFailure(Alone(i).res)
                  /\ Len(Alone(i).calls) = 3 + Len(Inner(i).calls)
                  /\ LastCalls(Alone(i).calls, Len(Inner(i).calls)) = Inner(i).calls
                  /\ isFailure(Inner(i).res) =>
                        /\ isSuccess(Alone(i).res)
                        /\ Alone(i).res.value.status = 404
                        /\ Alone(i).res.value.body = NotFoundBody(Inner(i).res.reason)
                  /\ i <= Last => Last = i /\ Below = InOrder(i)
            /\ ~PrefixMatches(i) =>
                  /\ Alone(i).res =
                        failure(input, "URL does not begin with "
                                          \o Text(PrefixOf(i)))
                  /\ Len(Alone(i).calls) = 2
                  /\ Alone(i).calls[2].p = prefix(PrefixOf(i))
                  /\ Len(endpoint.handlers) = 1 => result = Alone(i).res

\* a namespace whose prefix matches is listed before a handler that would
\* have returned a Success; the handler inside the namespace failed and
\* the result is the 404 response
C29_Witness ==
    /\ Handled
    /\ Len(endpoint.handlers) = 2
    /\ 1 \in NamespacesGiven
    /\ PrefixMatches(1)
    /\ isFailure(Inner(1).res)
    /\ isSuccess(Alone(2).res)
    /\ isSuccess(result)
    /\ result.value.status = 404

\* a namespace whose prefix does not match returned a Failure
C29_WitnessNoPrefix ==
    /\ Handled
    /\ Len(endpoint.handlers) = 1
    /\ 1 \in NamespacesGiven
    /\ ~PrefixMatches(1)
    /\ isFailure(result)
    /\ Len(calls) = 2

(***************************************************************************)
(* Signed bodies (readSignedJson).  A body arrives in chunks, each a       *)
(* sequence of characters; the request carries the value the signature     *)
(* function reads from it.  verifySignature is checkSignature with the     *)
(* shared secret.                                                          *)
(***************************************************************************)
MaxChunks == 2

RECURSIVE Concat(_)
\* Buffer.concat(buffers)
Concat(chunks) ==
    IF chunks = <<>> THEN <<>> ELSE Head(chunks) \o Concat(Tail(chunks))

RECURSIVE DigitsEnd(_, _)
\* the index after the digits that start at i
DigitsEnd(chars, i) ==
    IF i <= Len(chars) /\ chars[i] = "1" THEN DigitsEnd(chars, i + 1) ELSE i

RECURSIVE Ones(_)
\* the number written with n digits 1
Ones(n) == IF n = 0 THEN 0 ELSE 10 * Ones(n - 1) + 1

Unparsed == [ok |-> FALSE]

RECURSIVE ParseFrom(_, _)
\* JSON.parse reading one value at i: a number, [] or [value]
ParseFrom(chars, i) ==
    CASE i > Len(chars) -> Unparsed
      [] i <= Len(chars) /\ chars[i] = "1" ->
           [ok |-> TRUE, value |-> Num(Ones(DigitsEnd(chars, i) - i)),
            next |-> DigitsEnd(chars, i)]
      [] i <= Len(chars) /\ chars[i] = "[" ->
           IF i + 1 <= Len(chars) /\ chars[i + 1] = "]"
           THEN [ok |-> TRUE, value |-> Arr(<<>>), next |-> i + 2]
           ELSE LET inner == ParseFrom(chars, i + 1)
                IN  IF /\ inner.ok
                       /\ inner.next <= Len(chars)
                       /\ chars[inner.next] = "]"
                    THEN [ok |-> TRUE, value |-> Arr(<<inner.value>>),
                          next |-> inner.next + 1]
                    ELSE Unparsed
      [] OTHER -> Unparsed

\* JSON.parse(buffer.toString("utf8")): the value, or Unparsed when it
\* throws a SyntaxError
JSONparse(chars) ==
    LET parsed == ParseFrom(chars, 1)
    IN  IF parsed.ok /\ parsed.next = Len(chars) + 1 THEN parsed ELSE Unparsed

\* hmac.digest("base64") of the buffer under the secret
Digest(secret, chars) == "hmac(" \o secret \o "," \o Text(chars) \o ")"

checkSignature(buffer, secret, signature) == signature = Digest(secret, buffer)

Secret == "k"

Resolved(value) == [state |-> "resolved", value |-> value]
Rejected(error) == [state |-> "rejected", error |-> error]

\* A variant of readSignedJsonThen: only null counts as no signature.
readSignedJsonThenStrict(request, buffer) ==
    LET json == JSONparse(buffer)
        sig == request.signature
        verified == checkSignature(buffer, Secret, sig.v)
    IN  IF ~json.ok
        THEN [res |-> Rejected("SyntaxError"), calls |-> <<>>]
        ELSE IF sig = Null
        THEN [res |-> Resolved(<<"unsigned", json.value>>),
              calls |-> <<[p |-> "signature"]>>]
        ELSE IF sig # Undefined /\ verified
        THEN [res |-> Resolved(<<"signed", json.value>>),
              calls |-> <<[p |-> "signature"],
                          [p |-> "verifySignature", body |-> buffer,
                           returned |-> TRUE]>>]
        ELSE [res |-> Rejected("Invalid signature"),
              calls |-> <<[p |-> "signature"],
                          [p |-> "verifySignature", body |-> buffer,
                           returned |-> FALSE]>>]

\* the callback readSignedJson chains on resolveBuffer
readSignedJsonThen(request, buffer) ==
    LET json == JSONparse(buffer)
        sig == request.signature
        verified == checkSignature(buffer, Secret, sig.v)
    IN  IF ~json.ok
        THEN [res |-> Rejected("SyntaxError"), calls |-> <<>>]
        ELSE IF sig \in {Null, Undefined}
        THEN [res |-> Resolved(<<"unsigned", json.value>>),
              calls |-> <<[p |-> "signature"]>>]
        ELSE IF verified
        THEN [res |-> Resolved(<<"signed", json.value>>),
              calls |-> <<[p |-> "signature"],
                          [p |-> "verifySignature", body |-> buffer,
                           returned |-> TRUE]>>]
        ELSE [res |-> Rejected("Invalid signature"),
              calls |-> <<[p |-> "signature"],
                          [p |-> "verifySignature", body |-> buffer,
                           returned |-> FALSE]>>]

Chunks == {<<"1">>, <<"[">>, <<"]">>, <<"[", "1", "]">>}

Bodies == UNION {[1..n -> Chunks] : n \in 0..MaxChunks}

\* what the signature function may find on a request with this body
Signatures(body) ==
    {Undefined, Null, Str(""),
     Str(Digest(Secret, Concat(body))),
     Str(Digest("x", Concat(body))),
     Str(Digest(Secret, Concat(body) \o <<"1">>))}

\* a request arrives: readSignedJson starts resolveBuffer on it
Post(body, sig) ==
    /\ pc = "compose"
    /\ pc' = "posted"
    /\ input' = [chunks |-> body, signature |-> sig]
    /\ UNCHANGED <<parser, result, calls, history, scratch, endpoint, written,
                   buffers>>

\* for await (const data of request) buffers.push(data)
Read ==
    /\ pc = "posted"
    /\ Len(buffers) < Len(input.chunks)
    /\ buffers' = Append(buffers, input.chunks[Len(buffers) + 1])
    /\ UNCHANGED <<pc, parser, input, result, calls, history, scratch, endpoint,
                   written>>

\* the body has ended: the chained callback runs on Buffer.concat(buffers)
Settle ==
    /\ pc = "posted"
    /\ Len(buffers) = Len(input.chunks)
    /\ pc' = "settled"
    /\ LET e == readSignedJsonThen(input, Concat(buffers))
       IN  result' = e.res /\ calls' = e.calls
    /\ UNCHANGED <<parser, input, history, scratch, endpoint, written, buffers>>

NextSigned ==
    \/ \E body \in Bodies : \E sig \in Signatures(body) : Post(body, sig)
    \/ Read
    \/ Settle

SpecSigned == Init /\ [][NextSigned]_vars

\* the promise handed to the body handler has settled
Settled == pc = "settled"

\* the body that was sent
Sent == Concat(input.chunks)

\* the signature function returned null or undefined
Unsigned == input.signature \in {Null, Undefined}

\* the signature is the digest of the body under the shared secret
Accepted == ~Unsigned /\ input.signature.v = Digest(Secret, Sent)

\* C27: for a body that is JSON, the promise readSignedJson hands to the
\* body handler resolves to ['unsigned', json] when the signature function
\* returns null or undefined, resolves to ['signed', json] when a signature
\* is present and verifySignature accepts it, and rejects with 'Invalid
\* signature' when a signature is present and verifySignature refuses it.
\* Whatever the body, the promise resolves to 'signed' only after
\* verifySignature returned true for the body that was sent.
C27_Signed ==
    Settled =>
        /\ JSONparse(Sent).ok =>
              /\ Unsigned =>
                    result = Resolved(<<"unsigned", JSONparse(Sent).value>>)
              /\ Accepted =>
                    result = Resolved(<<"signed", JSONparse(Sent).value>>)
              /\ (~Unsigned /\ ~Accepted) =>
                    result = Rejected("Invalid signature")
        /\ (result.state = "resolved" /\ result.value[1] = "signed") =>
              /\ Accepted
              /\ \E i \in 1..Len(calls) :
                    calls[i] = [p |-> "verifySignature", body |-> Sent,
                                returned |-> TRUE]

\* a body sent in two chunks with the right signature resolved as signed
C27_Witness ==
    /\ Settled
    /\ Len(input.chunks) = 2
    /\ Accepted
    /\ result.state = "resolved"
    /\ result.value[1] = "signed"

\* a JSON body with an empty signature was refused
C27_WitnessInvalid ==
    /\ Settled
    /\ JSONparse(Sent).ok
    /\ input.signature = Str("")
    /\ result = Rejected("Invalid signature")

\* a JSON body without signature resolved as unsigned
C27_WitnessUnsigned ==
    /\ Settled
    /\ input.signature = Undefined
    /\ result.state = "resolved"
    /\ result.value[1] = "unsigned"

(***************************************************************************)
(* The API client (requireSuccess).  An ApiResponse is the request         *)
(* options, the response and the decoded result; a response without        *)
(* status code has no statusCode field.                                    *)
(***************************************************************************)
StatusCodes == 100..599

Options == [method : Methods, host : {"h"}, path : {"/", "/a"}]

Responses == [statusCode : StatusCodes] \cup {<<>>}

ApiResponses == [request : Options, response : Responses, result : {Ok}]

requireSuccess(response) ==
    IF "statusCode" \notin DOMAIN response.response
    THEN Rejected("Missing status code")
    ELSE IF response.response.statusCode >= 300
    THEN Rejected("Failed: " \o response.request.method \o " "
                    \o response.request.host \o response.request.path \o " "
                    \o ToString(response.response.statusCode) \o " "
                    \o Stringify(response.result))
    ELSE Resolved(response)

\* requireSuccess is applied to the ApiResponse of a finished request
Require(response) ==
    /\ pc = "compose"
    /\ pc' = "required"
    /\ input' = response
    /\ result' = requireSuccess(response)
    /\ UNCHANGED <<parser, calls, history, scratch, endpoint, written, buffers>>

NextStatus == \E response \in ApiResponses : Require(response)

SpecStatus == Init /\ [][NextStatus]_vars

\* the status code of the response is a 2XX code
Is2XX ==
    /\ "statusCode" \in DOMAIN input.response
    /\ input.response.statusCode \in 200..299

\* C28: requireSuccess resolves with the unchanged ApiResponse exactly
\* when the status code of the response is a 2XX code; for any other
\* status code, and without status code, the promise is rejected.
C28_Only2XX ==
    pc = "required" =>
        /\ Is2XX => result = Resolved(input)
        /\ ~Is2XX => result.state = "rejected"

(***************************************************************************)
(* Response handlers (collectBuffers, mapHandler).  The handler is given   *)
(* a response stream and the callbacks onResult and onError; the stream    *)
(* then emits its events.  history lists the events emitted so far and     *)
(* calls lists the calls made to onResult and onError.                     *)
(***************************************************************************)
Returned(value) == [returned |-> TRUE, value |-> value]

\* error says whether the thrown value is an instance of Error
Threw(error, message) ==
    [returned |-> FALSE, error |-> error, message |-> message]

\* map(a, res) for the maps of withData and decodeJson, and for a map that
\* throws a value that is not an Error
ApplyMap(map, a) ==
    CASE map = "withData" -> Returned(Str(Text(Concat(a))))
      [] map = "decodeJson" ->
           IF JSONparse(Concat(a)).ok
           THEN Returned(JSONparse(Concat(a)).value)
           ELSE Threw(TRUE, "SyntaxError")
      [] map = "throwing" -> Threw(FALSE, "not an Error")

Maps == {"withData", "decodeJson", "throwing"}

\* onResult is the resolve of a promise, or the callback an enclosing
\* mapHandler passes down, which throws what its own map threw when that
\* is not an Error
Consumers == {"resolve", "rethrow"}

onResult(value) == [p |-> "onResult", v |-> value]
onError(error) == [p |-> "onError", v |-> error]

\* A variant of collectData: the chunk is put in front of the others.
collectDataFront(chunks, data) == <<data>> \o chunks

\* the 'data' listener of collectBuffers: buffers.push(data)
collectData(chunks, data) == Append(chunks, data)

\* the callback mapHandler passes to the handler it wraps
mapHandlerCall(map, consumer, a) ==
    LET mapped == ApplyMap(map, a)
    IN  IF mapped.returned
        THEN [calls |-> <<onResult(mapped.value)>>,
              uncaught |-> consumer = "rethrow"]
        ELSE IF mapped.error
        THEN [calls |-> <<onError(mapped.message)>>, uncaught |-> FALSE]
        ELSE [calls |-> <<>>, uncaught |-> TRUE]

\* mapHandler(collectBuffers(), map)(res, onResult, onError): the listeners
\* are registered
Listen(map, consumer) ==
    /\ pc = "compose"
    /\ pc' = "listening"
    /\ parser' = [k |-> "mapHandler", map |-> map, onResult |-> consumer]
    /\ UNCHANGED <<input, result, calls, history, scratch, endpoint, written,
                   buffers>>

\* the stream emits 'data'
Data(data) ==
    /\ pc = "listening"
    /\ Len(buffers) < MaxChunks
    /\ history' = Append(history, [event |-> "data", data |-> data])
    /\ buffers' = collectData(buffers, data)
    /\ UNCHANGED <<pc, parser, input, result, calls, scratch, endpoint, written>>

\* the stream emits 'end'
End ==
    /\ pc = "listening"
    /\ pc' = "ended"
    /\ history' = Append(history, [event |-> "end"])
    /\ LET e == mapHandlerCall(parser.map, parser.onResult, buffers)
       IN  /\ calls' = calls \o e.calls
           /\ result' = [uncaught |-> e.uncaught]
    /\ UNCHANGED <<parser, input, scratch, endpoint, written, buffers>>

\* the stream emits 'error' and is destroyed
Error(error) ==
    /\ pc = "listening"
    /\ pc' = "errored"
    /\ history' = Append(history, [event |-> "error", error |-> error])
    /\ calls' = Append(calls, onError(error))
    /\ UNCHANGED <<parser, input, result, scratch, endpoint, written, buffers>>

NextStream ==
    \/ \E map \in Maps, consumer \in Consumers : Listen(map, consumer)
    \/ \E data \in Chunks : Data(data)
    \/ End
    \/ \E error \in {"ECONNRESET"} : Error(error)

SpecStream == Init /\ [][NextStream]_vars

RECURSIVE Arrived(_)
\* the chunks of the first n events, in the order of arrival
Arrived(n) ==
    IF n = 0
    THEN <<>>
    ELSE IF history[n].event = "data"
    THEN Append(Arrived(n - 1), history[n].data)
    ELSE Arrived(n - 1)

\* what map gives on the chunks in the order of arrival
Expected == ApplyMap(parser.map, Arrived(Len(history)))

\* C30: when the stream has emitted its 'data' events and then 'end', the
\* handler of mapHandler(collectBuffers(), map) has called onResult once,
\* with map applied to the chunks in the order of arrival, and has not
\* called onError; when map threw an Error, it has called onError with
\* that error and has not called onResult; when the stream has emitted
\* 'error', it has called onError.  Nothing is called before.
C30_Stream ==
    /\ pc = "listening" => calls = <<>>
    /\ pc = "ended" =>
          /\ Expected.returned => calls = <<onResult(Expected.value)>>
          /\ (~Expected.returned /\ Expected.error) =>
                calls = <<onError(Expected.message)>>
    /\ pc = "errored" =>
          calls = <<onError(history[Len(history)].error)>>

\* two different chunks arrived before 'end' and onResult got them joined
C30_Witness ==
    /\ pc = "ended"
    /\ Len(history) = 3
    /\ history[1].data # history[2].data
    /\ parser.map = "withData"
    /\ Len(calls) = 1
    /\ calls[1].p = "onResult"

\* the chunks were not JSON: map threw and onError was called
C30_WitnessThrow ==
    /\ pc = "ended"
    /\ parser.map = "decodeJson"
    /\ calls = <<onError("SyntaxError")>>

\* the stream failed after a chunk
C30_WitnessError ==
    /\ pc = "errored"
    /\ Len(history) = 2
====
